---- MODULE Spec2Model ----
(***************************************************************************)
(* PulserApp: the PythonPulseBlasterService session (python-service.ts)    *)
(* and the PythonHardwareControl component that drives it                  *)
(* (PythonHardwareControl.tsx), against a driver whose replies are free.   *)
(*                                                                         *)
(* JavaScript runs each piece of code between two awaits to completion,    *)
(* so one action is one such piece: a call up to its first await (the      *)
(* guard and the invoke), or the code that runs when the driver answers    *)
(* (the rest of the service method and of the handler that awaited it).    *)
(* Toasts, console output and the error/warnings texts are presentation    *)
(* only and are left out.                                                  *)
(***************************************************************************)
EXTENDS Integers, FiniteSets, Sequences, Bags, TLC

VARIABLES
    isInitialized,   \* PythonPulseBlasterService.isInitialized
    inflight,        \* bag of calls suspended on an invoke
    lifecycle,       \* the session's lifecycle state, in the spec's terms
    progress,        \* how far connect, program, start, stop, reset has got
    isConnected,     \* PythonHardwareControl state
    isConnecting,
    isProgramming,
    isRunning,
    status,
    instructions,    \* the component's instructions prop
    last,            \* what the last step did
    pollFailed,      \* a tick of the running poller has failed
    pbInitialized,   \* PulseBlasterService.isInitialized
    rawStatus,       \* PulseBlasterService: the number the driver returned
    pbStatus,        \* PulseBlasterService: the PulseBlasterStatus made of it
    prior,           \* the lifecycle state in which the last answer arrived
    waiting,         \* the driver's wait: timeout asked and sent, time elapsed
    deviceStopped,   \* the device has reached stopped
    request,         \* the instructions and patterns a caller wants programmed
    sentInstructions, \* the instructions argument of program_python_instructions
    sentPatterns,    \* the patterns argument of program_python_pulse_sequence
    backendInstructions, \* PulseBlasterService: the argument of program_instructions
    returnedWarnings \* what programInstructions returned, once it has

vars == <<isInitialized, inflight, lifecycle, progress, isConnected,
          isConnecting, isProgramming, isRunning, status, instructions, last,
          pollFailed, pbInitialized, rawStatus, pbStatus, prior, waiting,
          deviceStopped, request, sentInstructions, sentPatterns,
          backendInstructions, returnedWarnings>>

service == <<isInitialized, inflight, lifecycle, progress>>
ui == <<isConnected, isConnecting, isProgramming, isRunning, status>>
legacy == <<pbInitialized, rawStatus, pbStatus>>
driver == <<waiting, deviceStopped>>
wire == <<request, sentInstructions, sentPatterns, backendInstructions,
          returnedWarnings>>

\* At most this many calls are suspended on the driver at once.
MaxInFlight == 2

----------------------------------------------------------------------------
\* The service's methods and the driver command each one invokes.

Methods == {"initialize", "programInstructions", "start", "stop", "reset",
            "getStatus", "programFrequencyRegisters", "programPhaseRegisters",
            "programAmplitudeRegisters", "waitUntilStopped", "disconnect",
            "programPulseSequence", "getDiagnostics"}

CommandOf(op) ==
    CASE op = "initialize"          -> "initialize_python_pulseblaster"
      [] op = "programInstructions" -> "program_python_instructions"
      [] op = "start"               -> "start_python_pulseblaster"
      [] op = "stop"                -> "stop_python_pulseblaster"
      [] op = "reset"               -> "reset_python_pulseblaster"
      [] op = "getStatus"           -> "get_python_pulseblaster_status"
      [] op = "programFrequencyRegisters" -> "program_python_freq_registers"
      [] op = "programPhaseRegisters"     -> "program_python_phase_registers"
      [] op = "programAmplitudeRegisters" -> "program_python_amp_registers"
      [] op = "waitUntilStopped"          -> "wait_python_until_stopped"
      [] op = "programPulseSequence"      -> "program_python_pulse_sequence"

\* Who awaits a call: a handler of the component, its status poller, or any
\* other user of the exported service ("api").
Handlers == {"handleConnect", "handleDisconnect", "handleProgramSequence",
             "handleStart", "handleStop", "handleReset",
             "handleWaitUntilStopped", "handleProgramDDSRegisters",
             "handleProgramBlink"}
Callers == Handlers \cup {"poller", "api"}

\* What invoke and JSON.parse can produce: a rejected invoke, a text that
\* does not parse, JSON null (reading .status of it throws), an object with
\* status 'error', an object without the expected fields, a full reply; and
\* from wait_python_until_stopped a full reply whose stopped is false, which
\* is how the driver reports that the timeout ran out.
Replies == {"reject", "unparsable", "null", "error", "shapeless", "ok", "timeout"}

\* hardware_status.running of a full status reply.
HardwareStates == {"running", "idle"}

\* The try block with a reply whose stopped is false taken as a failure.
Throws_TimeoutIsFailure(r) == r \in {"reject", "unparsable", "null", "error", "timeout"}

\* The try block throws: invoke rejected, JSON.parse threw, response.status
\* could not be read, or response.status === 'error'.
Throws(r) == r \in {"reject", "unparsable", "null", "error"}

\* The instruction sequences the editor hands to the component, or another
\* caller to programInstructions: none, one that ends in STOP, one without a
\* STOP.
InstructionSets ==
    {<< >>,
     <<[flags |-> 1, opcode |-> "STOP", data |-> 0, duration |-> 1000]>>,
     <<[flags |-> 1, opcode |-> "CONTINUE", data |-> 0, duration |-> 1000]>>}

\* validate of the spec, as far as its terminal opcode goes: the sequence is
\* not empty and its last instruction is a STOP.
HasTerminalOpcode(seq) == Len(seq) > 0 /\ seq[Len(seq)].opcode = "STOP"

Task(op, by, cmd) == [op |-> op, by |-> by, cmd |-> cmd]

\* What a step did: the method and its caller, what became of the call
\* ("dispatched", "rejected" before any invoke, "continued" with a further
\* command, "returned", "raised"), the command sent or answered, the answer.
Event(op, by, ev, cmd, reply) ==
    [op |-> op, by |-> by, ev |-> ev, cmd |-> cmd, reply |-> reply]

Add(t) == inflight (+) SetToBag({t})
Remove(t) == inflight (-) SetToBag({t})

\* How many suspended calls are in S.
NumberOf(S) == BagCardinality([t \in S \cap BagToSet(inflight) |-> inflight[t]])

----------------------------------------------------------------------------
\* The lifecycle the spec describes, followed from the commands the session
\* saw succeed. The service itself keeps only isInitialized.

Scenario == <<"initialize_python_pulseblaster", "program_python_instructions",
              "start_python_pulseblaster", "stop_python_pulseblaster",
              "reset_python_pulseblaster">>

LifecycleAfter(cmd, r, init) ==
    IF ~init THEN "Uninitialized"
    ELSE IF Throws(r) THEN lifecycle
    ELSE CASE cmd = "initialize_python_pulseblaster" -> "Connected"
           [] cmd = "program_python_instructions"    -> "Programmed"
           [] cmd = "program_python_pulse_sequence"  -> "Programmed"
           [] cmd = "start_python_pulseblaster"      -> "Running"
           [] cmd = "stop_python_pulseblaster"       -> "Stopped"
           [] cmd = "reset_python_pulseblaster"      -> "Connected"
           [] OTHER                                  -> lifecycle

\* Position in the run connect, program, start, stop, reset, each succeeding
\* and nothing else answered in between (status queries aside).
ProgressAfter(cmd, r, init) ==
    IF cmd = "get_python_pulseblaster_status" THEN progress
    ELSE IF ~init \/ Throws(r) THEN 0
    ELSE IF progress < Len(Scenario) /\ Scenario[progress + 1] = cmd THEN progress + 1
    ELSE IF cmd = Scenario[1] THEN 1
    ELSE 0

----------------------------------------------------------------------------
\* PythonPulseBlasterService

\* The checks with the one of start left out.
Precondition_StartUnchecked(op) ==
    IF op \in {"initialize", "start"} THEN TRUE ELSE isInitialized

\* The checks with start refused unless a sequence is programmed, as the
\* lifecycle table has it.
Precondition_StartNeedsProgram(op) ==
    IF op = "initialize" THEN TRUE
    ELSE IF op = "start" THEN isInitialized /\ lifecycle \in {"Programmed", "Stopped"}
    ELSE isInitialized

\* The checks with initialize refused on an initialized session.
Precondition_InitializeOnce(op) ==
    IF op = "initialize" THEN ~isInitialized ELSE isInitialized

\* The checks with programInstructions refused while the device runs.
Precondition_ProgramNotRunning(op) ==
    IF op = "initialize" THEN TRUE
    ELSE IF op = "programInstructions" THEN isInitialized /\ lifecycle # "Running"
    ELSE isInitialized

\* The checks with the one of waitUntilStopped left out.
Precondition_WaitUnchecked(op) ==
    IF op \in {"initialize", "waitUntilStopped"} THEN TRUE ELSE isInitialized

\* if (!this.isInitialized) throw new Error('Python PulseBlaster not initialized');
\* initialize has no such check.
Precondition(op) == IF op = "initialize" THEN TRUE ELSE isInitialized

\* The method passes its check and suspends on invoke.
Dispatch(op, by) ==
    /\ inflight' = Add(Task(op, by, CommandOf(op)))
    /\ last' = Event(op, by, "dispatched", CommandOf(op), "none")
    /\ UNCHANGED <<isInitialized, lifecycle, progress>>

\* The method throws before any invoke.
Rejected(op, by) ==
    /\ last' = Event(op, by, "rejected", "none", "none")
    /\ UNCHANGED service

CallMethod(op, by) ==
    IF Precondition(op) THEN Dispatch(op, by) ELSE Rejected(op, by)

\* What the Error a method throws says: the operation its text names and the
\* cause it quotes. The check of the flag throws the same text, 'Python
\* PulseBlaster not initialized', in every method; a catch block throws
\* `Failed to <operation>: ${error}`; the catch of initialize throws
\* 'Python interpreter not found. ... Original error: ${error}' instead when
\* invoke rejected with a string that includes 'No working Python
\* interpreter found' (noInterpreter).
ErrorOf(op, ev, r, noInterpreter) ==
    IF ev = "rejected"
    THEN [operation |-> "none", cause |-> "none"]
    ELSE IF op = "initialize" /\ r = "reject" /\ noInterpreter
    THEN [operation |-> "none", cause |-> r]
    ELSE [operation |-> op, cause |-> r]

\* disconnect(): on an initialized session it calls this.stop(), whose own
\* check passes on the flag just read; otherwise it returns at once.
CallDisconnect(by) ==
    IF isInitialized
    THEN /\ inflight' = Add(Task("disconnect", by, CommandOf("stop")))
         /\ last' = Event("disconnect", by, "dispatched", CommandOf("stop"), "none")
         /\ UNCHANGED <<isInitialized, lifecycle, progress>>
    ELSE /\ last' = Event("disconnect", by, "returned", "none", "none")
         /\ UNCHANGED service

\* getDiagnostics(): on an initialized session it calls this.getStatus(),
\* whose own check passes on the flag just read; otherwise it returns the
\* script path and the flag at once.
CallDiagnostics(by) ==
    IF isInitialized
    THEN /\ inflight' = Add(Task("getDiagnostics", by, CommandOf("getStatus")))
         /\ last' = Event("getDiagnostics", by, "dispatched", CommandOf("getStatus"), "none")
         /\ UNCHANGED <<isInitialized, lifecycle, progress>>
    ELSE /\ last' = Event("getDiagnostics", by, "returned", "none", "none")
         /\ UNCHANGED service

\* initialize setting the flag as soon as invoke resolves, before the reply
\* is parsed, and not clearing it in catch.
InitializedAfter_SetBeforeParse(r) == r # "reject"

\* initialize setting the flag before it looks at response.status, with a
\* catch that does not clear it.
InitializedAfter_SetBeforeStatusTest(r) ==
    IF r \in {"reject", "unparsable", "null"} THEN isInitialized ELSE TRUE

\* initialize with a catch that does not clear the flag.
InitializedAfter_NotClearedInCatch(r) == IF Throws(r) THEN isInitialized ELSE TRUE

\* initialize after its invoke: the flag is set on success, cleared in catch.
InitializedAfter(r) == ~Throws(r)

InitializeReplied(t, r) ==
    /\ isInitialized' = InitializedAfter(r)
    /\ inflight' = Remove(t)
    /\ last' = Event(t.op, t.by, IF Throws(r) THEN "raised" ELSE "returned", t.cmd, r)

\* getStatus clearing the flag in its catch, as initialize does.
MethodReplied_StatusFailureClearsFlag(t, r) ==
    /\ isInitialized' = (IF t.op = "getStatus" /\ Throws(r) THEN FALSE ELSE isInitialized)
    /\ inflight' = Remove(t)
    /\ last' = Event(t.op, t.by, IF Throws(r) THEN "raised" ELSE "returned", t.cmd, r)

\* The methods with a catch that logs and returns instead of rethrowing.
MethodReplied_FailureSwallowed(t, r) ==
    /\ isInitialized' = isInitialized
    /\ inflight' = Remove(t)
    /\ last' = Event(t.op, t.by, "returned", t.cmd, r)

\* The register methods and waitUntilStopped clearing the flag in their
\* catch.
MethodReplied_FailureClearsFlag(t, r) ==
    /\ isInitialized' =
          (IF t.op \notin {"programInstructions", "start", "stop", "reset", "getStatus"}
                /\ Throws(r)
           THEN FALSE ELSE isInitialized)
    /\ inflight' = Remove(t)
    /\ last' = Event(t.op, t.by, IF Throws(r) THEN "raised" ELSE "returned", t.cmd, r)

\* reset clearing the flag once the driver has reset the board.
MethodReplied_ResetClearsFlag(t, r) ==
    /\ isInitialized' = (IF t.op = "reset" /\ ~Throws(r) THEN FALSE ELSE isInitialized)
    /\ inflight' = Remove(t)
    /\ last' = Event(t.op, t.by, IF Throws(r) THEN "raised" ELSE "returned", t.cmd, r)

\* getStatus with a catch that logs and returns nothing, as the one of
\* getDiagnostics.
MethodReplied_StatusFailureSwallowed(t, r) ==
    /\ isInitialized' = isInitialized
    /\ inflight' = Remove(t)
    /\ last' = Event(t.op, t.by,
                     IF Throws(r) /\ t.op # "getStatus" THEN "raised" ELSE "returned",
                     t.cmd, r)

\* The methods invoking their command again when the reply cannot be read.
MethodReplied_RetryOnUnreadableReply(t, r) ==
    IF r \in {"unparsable", "null"}
    THEN /\ isInitialized' = isInitialized
         /\ inflight' = inflight
         /\ last' = Event(t.op, t.by, "continued", t.cmd, r)
    ELSE /\ isInitialized' = isInitialized
         /\ inflight' = Remove(t)
         /\ last' = Event(t.op, t.by, IF Throws(r) THEN "raised" ELSE "returned", t.cmd, r)

\* programInstructions, start, stop, reset, getStatus, the three register
\* methods and waitUntilStopped after their invoke: return, or rethrow as
\* 'Failed to ...'.
MethodReplied(t, r) ==
    /\ isInitialized' = isInitialized
    /\ inflight' = Remove(t)
    /\ last' = Event(t.op, t.by, IF Throws(r) THEN "raised" ELSE "returned", t.cmd, r)

\* disconnect after this.stop(): stop and reset share one try block, so
\* reset is called only when stop returned, and reset makes its own check
\* of the flag.
ResetFollows(t, r) ==
    /\ t.cmd = CommandOf("stop")
    /\ ~Throws(r)
    /\ isInitialized

\* disconnect with the catch block missing: a failure of stop or reset
\* leaves the flag alone and reaches the caller.
DisconnectReplied_NoCatch(t, r) ==
    IF ResetFollows(t, r)
    THEN /\ isInitialized' = isInitialized
         /\ inflight' = Remove(t) (+) SetToBag({Task("disconnect", t.by, CommandOf("reset"))})
         /\ last' = Event("disconnect", t.by, "continued", t.cmd, r)
    ELSE /\ isInitialized' = (IF Throws(r) THEN isInitialized ELSE FALSE)
         /\ inflight' = Remove(t)
         /\ last' = Event("disconnect", t.by, IF Throws(r) THEN "raised" ELSE "returned", t.cmd, r)

DisconnectReplied(t, r) ==
    IF ResetFollows(t, r)
    THEN /\ isInitialized' = isInitialized
         /\ inflight' = Remove(t) (+) SetToBag({Task("disconnect", t.by, CommandOf("reset"))})
         /\ last' = Event("disconnect", t.by, "continued", t.cmd, r)
    ELSE /\ isInitialized' = FALSE
         /\ inflight' = Remove(t)
         /\ last' = Event("disconnect", t.by, "returned", t.cmd, r)

\* getDiagnostics after this.getStatus(): a failure is caught and logged,
\* and the diagnostics are returned without pythonInfo.
DiagnosticsReplied(t, r) ==
    /\ isInitialized' = isInitialized
    /\ inflight' = Remove(t)
    /\ last' = Event("getDiagnostics", t.by, "returned", t.cmd, r)

ServiceReplied(t, r) ==
    /\ CASE t.op = "initialize"     -> InitializeReplied(t, r)
         [] t.op = "disconnect"     -> DisconnectReplied(t, r)
         [] t.op = "getDiagnostics" -> DiagnosticsReplied(t, r)
         [] OTHER                   -> MethodReplied(t, r)
    /\ lifecycle' = LifecycleAfter(t.cmd, r, isInitialized')
    /\ progress' = ProgressAfter(t.cmd, r, isInitialized')

----------------------------------------------------------------------------
\* PythonHardwareControl

\* What a handler sets before it awaits the service.
Before(by) ==
    /\ isConnecting' = (IF by = "handleConnect" THEN TRUE ELSE isConnecting)
    /\ isProgramming' = (IF by = "handleProgramSequence" THEN TRUE ELSE isProgramming)
    /\ UNCHANGED <<isConnected, isRunning, status>>

\* handleDisconnect leaving isConnected set, so that the polling effect is
\* not cleaned up.
AfterDisconnect_PollerLeftRunning(ok) ==
    /\ isConnected' = isConnected
    /\ status' = (IF ok THEN "null" ELSE status)
    /\ isRunning' = (IF ok THEN FALSE ELSE isRunning)
    /\ UNCHANGED <<isConnecting, isProgramming>>

\* handleDisconnect after disconnect(): the state is cleared; clearing
\* isConnected runs the cleanup of the polling effect (clearInterval).
AfterDisconnect(ok) ==
    /\ isConnected' = (IF ok THEN FALSE ELSE isConnected)
    /\ status' = (IF ok THEN "null" ELSE status)
    /\ isRunning' = (IF ok THEN FALSE ELSE isRunning)
    /\ UNCHANGED <<isConnecting, isProgramming>>

\* A tick whose failure ends the polling.
AfterPoll_FailureStopsPoller(ok, st) ==
    /\ status' = (IF ok THEN st ELSE status)
    /\ isRunning' = (IF ok THEN st = "running" ELSE isRunning)
    /\ isConnected' = (IF ok THEN isConnected ELSE FALSE)
    /\ UNCHANGED <<isConnecting, isProgramming>>

\* A tick whose failure clears what was published.
AfterPoll_FailureClearsStatus(ok, st) ==
    /\ status' = (IF ok THEN st ELSE "null")
    /\ isRunning' = (IF ok THEN st = "running" ELSE FALSE)
    /\ UNCHANGED <<isConnected, isConnecting, isProgramming>>

\* A tick of the poller after getStatus(): the status is published and
\* isRunning follows hardware_status.running; the catch only logs.
AfterPoll(ok, st) ==
    /\ status' = (IF ok THEN st ELSE status)
    /\ isRunning' = (IF ok THEN st = "running" ELSE isRunning)
    /\ UNCHANGED <<isConnected, isConnecting, isProgramming>>

\* handleConnect with setIsConnecting(false) at the end of its try block
\* and no finally.
AfterConnect_ReleasedOnSuccessOnly(ok) ==
    /\ isConnected' = (IF ok THEN TRUE ELSE isConnected)
    /\ isConnecting' = (IF ok THEN FALSE ELSE isConnecting)
    /\ UNCHANGED <<isProgramming, isRunning, status>>

\* handleConnect after initialize(): setIsConnected(true) when it returned;
\* the finally block releases isConnecting either way.
AfterConnect(ok) ==
    /\ isConnected' = (IF ok THEN TRUE ELSE isConnected)
    /\ isConnecting' = FALSE
    /\ UNCHANGED <<isProgramming, isRunning, status>>

\* What a caller does once the call it awaited has returned (ok) or thrown:
\* the rest of its try block, or its catch, and its finally. st is the
\* status a getStatus call returned.
After(by, ok, st) ==
    CASE by = "handleConnect" -> AfterConnect(ok)
      [] by = "handleDisconnect" -> AfterDisconnect(ok)
      [] by = "handleProgramSequence" ->
           /\ isProgramming' = FALSE
           /\ UNCHANGED <<isConnected, isConnecting, isRunning, status>>
      [] by = "handleStart" ->
           /\ isRunning' = (IF ok THEN TRUE ELSE isRunning)
           /\ UNCHANGED <<isConnected, isConnecting, isProgramming, status>>
      [] by \in {"handleStop", "handleReset"} ->
           /\ isRunning' = (IF ok THEN FALSE ELSE isRunning)
           /\ UNCHANGED <<isConnected, isConnecting, isProgramming, status>>
      [] by = "poller" -> AfterPoll(ok, st)
      [] by = "handleWaitUntilStopped" ->
           /\ isRunning' = (IF ok /\ st = "stopped" THEN FALSE ELSE isRunning)
           /\ UNCHANGED <<isConnected, isConnecting, isProgramming, status>>
      [] OTHER -> UNCHANGED ui

\* The status object getStatus returns: hardware_status is there in a full
\* reply only.
StatusOf(r, hw) == IF r = "ok" THEN hw ELSE "nohw"

\* What waitUntilStopped returns, response.stopped: true in a full reply,
\* false when the timeout ran out, undefined when the field is missing.
StoppedOf(r) ==
    CASE r = "ok"      -> "stopped"
      [] r = "timeout" -> "timedout"
      [] OTHER         -> "undefined"

\* What the awaited method hands back to its caller.
ResultOf(t, r, hw) ==
    IF t.cmd = CommandOf("waitUntilStopped") THEN StoppedOf(r) ELSE StatusOf(r, hw)

\* Whether a tick of the poller has failed since the component connected.
PollFailedAfter(by, ev) ==
    IF ~isConnected' THEN FALSE
    ELSE IF by = "poller" /\ ev \in {"raised", "rejected"} THEN TRUE
    ELSE pollFailed

\* A caller calls a method of the service and awaits it.
ServiceCall(op, by) ==
    /\ BagCardinality(inflight) < MaxInFlight
    /\ CASE op = "disconnect"     -> CallDisconnect(by)
         [] op = "getDiagnostics" -> CallDiagnostics(by)
         [] OTHER                 -> CallMethod(op, by)
    /\ IF last'.ev = "dispatched"
       THEN Before(by)
       ELSE After(by, last'.ev = "returned", "nohw")
    /\ pollFailed' = PollFailedAfter(by, last'.ev)
    /\ prior' = "none"
    /\ UNCHANGED <<instructions, legacy, driver, wire>>

\* The driver answers a suspended call; the method and then its caller run on.
DriverReplies(t, r, hw) ==
    /\ t \in BagToSet(inflight)
    /\ ServiceReplied(t, r)
    /\ IF last'.ev = "continued"
       THEN UNCHANGED ui
       ELSE After(t.by, last'.ev = "returned", ResultOf(t, r, hw))
    /\ pollFailed' = PollFailedAfter(t.by, last'.ev)
    /\ prior' = lifecycle
    /\ UNCHANGED <<instructions, legacy, driver, wire>>

\* The buttons: Connect is rendered while disconnected and disabled while
\* connecting; the others are disabled as their disabled attributes say.
HandleConnect ==
    /\ ~isConnected /\ ~isConnecting
    /\ ServiceCall("initialize", "handleConnect")

HandleDisconnect ==
    /\ isConnected
    /\ ServiceCall("disconnect", "handleDisconnect")

HandleProgramSequence ==
    /\ isConnected /\ ~isProgramming /\ Len(instructions) # 0
    /\ ServiceCall("programInstructions", "handleProgramSequence")

HandleStart ==
    /\ isConnected /\ ~isRunning
    /\ ServiceCall("start", "handleStart")

HandleStop ==
    /\ isConnected /\ isRunning
    /\ ServiceCall("stop", "handleStop")

HandleReset ==
    /\ isConnected
    /\ ServiceCall("reset", "handleReset")

HandleWaitUntilStopped ==
    /\ isConnected /\ isRunning
    /\ ServiceCall("waitUntilStopped", "handleWaitUntilStopped")

\* setInterval(..., 1000) exists while isConnected; each tick calls getStatus.
PollerTick ==
    /\ isConnected
    /\ ServiceCall("getStatus", "poller")

\* handleProgramDDSRegisters with the amplitudes programmed before the
\* phases.
DDSOrder_AmplitudeBeforePhase ==
    <<"programFrequencyRegisters", "programAmplitudeRegisters",
      "programPhaseRegisters">>

\* The three awaits of handleProgramDDSRegisters, in the order of its try
\* block.
DDSOrder ==
    <<"programFrequencyRegisters", "programPhaseRegisters",
      "programAmplitudeRegisters">>

\* Where a method stands in that order.
DDSIndex(op) == CHOOSE i \in DOMAIN DDSOrder : DDSOrder[i] = op

\* The Program DDS Registers button is disabled while disconnected; the
\* handler calls the first of the three methods.
HandleProgramDDSRegisters ==
    /\ isConnected
    /\ ServiceCall(DDSOrder[1], "handleProgramDDSRegisters")

\* The driver answers a call that handleProgramDDSRegisters awaits. When the
\* method returned and it was not the last, the handler calls the next one,
\* which makes its own check of the flag; when a method threw, the catch
\* block ends the handler.
DDSReplied(t, r) ==
    /\ t \in BagToSet(inflight)
    /\ t.by = "handleProgramDDSRegisters"
    /\ IF ~Throws(r) /\ DDSIndex(t.op) < Len(DDSOrder)
       THEN LET next == DDSOrder[DDSIndex(t.op) + 1] IN
            IF Precondition(next)
            THEN /\ inflight' = Remove(t) (+) SetToBag({Task(next, t.by, CommandOf(next))})
                 /\ last' = Event(t.op, t.by, "continued", t.cmd, r)
                 /\ isInitialized' = isInitialized
            ELSE /\ inflight' = Remove(t)
                 /\ last' = Event(next, t.by, "rejected", "none", "none")
                 /\ isInitialized' = isInitialized
       ELSE MethodReplied(t, r)
    /\ lifecycle' = LifecycleAfter(t.cmd, r, isInitialized')
    /\ progress' = ProgressAfter(t.cmd, r, isInitialized')
    /\ UNCHANGED ui
    /\ pollFailed' = PollFailedAfter(t.by, last'.ev)
    /\ prior' = lifecycle
    /\ UNCHANGED <<instructions, legacy, driver, wire>>

\* The Program Blink button is disabled while disconnected. The handler
\* calls pythonPulseBlasterService.programSimpleBlink, which the service
\* does not have: the call throws a TypeError inside the try block, nothing
\* is invoked, and the catch block reports the failure.
HandleProgramBlink ==
    /\ isConnected
    /\ last' = Event("programSimpleBlink", "handleProgramBlink", "raised", "none", "none")
    /\ prior' = "none"
    /\ UNCHANGED <<service, ui, instructions, pollFailed, legacy, driver, wire>>

\* Any other user of the exported pythonPulseBlasterService; what it passes
\* to programInstructions is the sequence in instructions.
ApiCall(op) ==
    /\ op \in Methods
    /\ ServiceCall(op, "api")

----------------------------------------------------------------------------
\* PulseBlasterService, the service of the direct driver, as far as its
\* status goes. A call and the driver's answer to it are one step here.

\* The status numbers the driver returns, largest one.
MaxRaw == 127

\* A 32-bit status number is held as the int32 that the operator & makes of
\* it: the numbers with bit 31 set are the negative ones, -1 is 0xFFFFFFFF.
RawValues == (-MaxRaw - 1)..MaxRaw

\* x & m for a mask m >= 0, bit by bit.
RECURSIVE BitAnd(_, _)
BitAnd(x, m) ==
    IF m = 0 THEN 0 ELSE (x % 2) * (m % 2) + 2 * BitAnd(x \div 2, m \div 2)

\* The decoding with the masks of running and stopped exchanged.
DecodeStatus_MasksExchanged(n) ==
    [status     |-> n,
     is_running |-> BitAnd(n, 2) # 0,
     is_stopped |-> BitAnd(n, 1) # 0,
     is_reset   |-> BitAnd(n, 4) # 0,
     is_waiting |-> BitAnd(n, 8) # 0]

\* The object getStatus returns for the status number n.
DecodeStatus(n) ==
    [status     |-> n,
     is_running |-> BitAnd(n, 1) # 0,
     is_stopped |-> BitAnd(n, 2) # 0,
     is_reset   |-> BitAnd(n, 4) # 0,
     is_waiting |-> BitAnd(n, 8) # 0]

\* initialize: the flag is set when invoke resolves, cleared when it rejects.
LegacyInitialize(r) ==
    /\ pbInitialized' = (r # "reject")
    /\ last' = Event("initialize", "api", IF r = "reject" THEN "raised" ELSE "returned",
                     "initialize_pulseblaster", r)
    /\ UNCHANGED <<service, ui, instructions, pollFailed, rawStatus, pbStatus,
                   prior, driver, wire>>

\* getStatus: refused on a service that is not initialized; otherwise the
\* number invoke resolves to is decoded, and a rejection is rethrown.
LegacyGetStatus(r, n) ==
    /\ IF ~pbInitialized
       THEN /\ last' = Event("getStatus", "api", "rejected", "none", "none")
            /\ UNCHANGED <<rawStatus, pbStatus>>
       ELSE IF r = "reject"
       THEN /\ last' = Event("getStatus", "api", "raised", "get_pulseblaster_status", r)
            /\ UNCHANGED <<rawStatus, pbStatus>>
       ELSE /\ rawStatus' = n
            /\ pbStatus' = <<DecodeStatus(n)>>
            /\ last' = Event("getStatus", "api", "returned", "get_pulseblaster_status", r)
    /\ UNCHANGED <<service, ui, instructions, pollFailed, pbInitialized,
                   prior, driver, wire>>

----------------------------------------------------------------------------
\* No waitUntilStopped is at the driver.
NoWait == [asked |-> 0, sent |-> 0, elapsed |-> 0]

\* Nothing to program.
NoRequest == [instructions |-> << >>, patterns |-> << >>]

----------------------------------------------------------------------------
\* waitUntilStopped against a driver that keeps time. The service has no
\* timer: it hands timeoutSeconds to wait_python_until_stopped and awaits the
\* answer. The driver watches the device until it has stopped or the
\* timeout it was given has run out.

\* The timeouts a caller asks for, in seconds, largest one.
MaxTimeout == 2

\* The default of timeoutSeconds.
DefaultTimeout == 5

\* waitUntilStopped sending its default whatever the caller asked for.
TimeoutSent_AlwaysDefault(timeoutSeconds) == DefaultTimeout

\* { timeoutS: timeoutSeconds }
TimeoutSent(timeoutSeconds) == timeoutSeconds

WaitTasks == {t \in BagToSet(inflight) : t.op = "waitUntilStopped"}

\* One caller waits at a time here.
WaitCall(timeoutSeconds) ==
    /\ BagCardinality(inflight) < MaxInFlight
    /\ WaitTasks = {}
    /\ CallMethod("waitUntilStopped", "api")
    /\ waiting' = (IF last'.ev = "dispatched"
                   THEN [asked |-> timeoutSeconds, sent |-> TimeoutSent(timeoutSeconds),
                         elapsed |-> 0]
                   ELSE waiting)
    /\ prior' = "none"
    /\ UNCHANGED <<ui, instructions, pollFailed, legacy, deviceStopped, wire>>

\* initialize, start and stop beside the wait.
SessionCall(op) ==
    /\ BagCardinality(inflight) < MaxInFlight
    /\ CallMethod(op, "api")
    /\ prior' = "none"
    /\ UNCHANGED <<ui, instructions, pollFailed, legacy, driver, wire>>

\* The device after a command the driver has answered: a start that
\* succeeded sets it running, a stop that succeeded stops it.
DeviceAfter(cmd, r) ==
    IF Throws(r) THEN deviceStopped
    ELSE IF cmd = CommandOf("start") THEN FALSE
    ELSE IF cmd = CommandOf("stop") THEN TRUE
    ELSE deviceStopped

SessionAnswered(t, r) ==
    /\ t \in BagToSet(inflight) \ WaitTasks
    /\ ServiceReplied(t, r)
    /\ deviceStopped' = DeviceAfter(t.cmd, r)
    /\ prior' = lifecycle
    /\ UNCHANGED <<ui, instructions, pollFailed, legacy, waiting, wire>>

\* The pulse program comes to its end.
DeviceStops ==
    /\ ~deviceStopped
    /\ deviceStopped' = TRUE
    /\ UNCHANGED <<service, ui, instructions, last, pollFailed, legacy, prior,
                   waiting, wire>>

\* A second of the driver's wait goes by.
TimePasses ==
    /\ WaitTasks # {}
    /\ waiting.elapsed < waiting.sent
    /\ waiting' = [waiting EXCEPT !.elapsed = @ + 1]
    /\ UNCHANGED <<service, ui, instructions, last, pollFailed, legacy, prior,
                   deviceStopped, wire>>

\* What the driver may answer to the wait: stopped: true once the device
\* has stopped, stopped: false once the timeout has run out with the device
\* not stopped, a failure at any time.
WaitAnswers ==
    {r \in {"ok"} : deviceStopped}
        \cup {r \in {"timeout"} : ~deviceStopped /\ waiting.elapsed = waiting.sent}
        \cup {"reject", "error"}

WaitAnswered(r) ==
    /\ WaitTasks # {}
    /\ r \in WaitAnswers
    /\ \E t \in WaitTasks : ServiceReplied(t, r)
    /\ waiting' = NoWait
    /\ prior' = lifecycle
    /\ UNCHANGED <<ui, instructions, pollFailed, legacy, deviceStopped, wire>>

\* The driver's timeout: when the time it was given has run out it answers.
WaitExpires ==
    /\ waiting.elapsed = waiting.sent
    /\ \E r \in {"ok", "timeout"} : WaitAnswered(r)

Init ==
    /\ isInitialized = FALSE
    /\ inflight = EmptyBag
    /\ lifecycle = "Uninitialized"
    /\ progress = 0
    /\ isConnected = FALSE
    /\ isConnecting = FALSE
    /\ isProgramming = FALSE
    /\ isRunning = FALSE
    /\ status = "null"
    /\ instructions \in InstructionSets
    /\ last = Event("none", "none", "none", "none", "none")
    /\ pollFailed = FALSE
    /\ pbInitialized = FALSE
    /\ rawStatus = 0
    /\ pbStatus = << >>
    /\ prior = "none"
    /\ waiting = NoWait
    /\ deviceStopped = FALSE
    /\ request = NoRequest
    /\ sentInstructions = << >>
    /\ sentPatterns = << >>
    /\ backendInstructions = << >>
    /\ returnedWarnings = << >>

\* The answers the driver can give to a suspended call: hardware_status
\* comes with a full reply to a status query only.
Answers(t) ==
    IF t.cmd = CommandOf("getStatus")
    THEN ({"ok"} \X HardwareStates) \cup ((Replies \ {"ok", "timeout"}) \X {"none"})
    ELSE IF t.cmd = CommandOf("waitUntilStopped")
    THEN Replies \X {"none"}
    ELSE (Replies \ {"timeout"}) \X {"none"}

\* The session under any callers of the exported service.
Next ==
    \/ \E op \in Methods : ApiCall(op)
    \/ \E t \in BagToSet(inflight) : \E a \in Answers(t) : DriverReplies(t, a[1], a[2])

Spec == Init /\ [][Next]_vars

\* One mounted PythonHardwareControl as the only user of the service.
NextUI ==
    \/ HandleConnect
    \/ HandleDisconnect
    \/ HandleProgramSequence
    \/ HandleStart
    \/ HandleStop
    \/ HandleReset
    \/ HandleWaitUntilStopped
    \/ PollerTick
    \/ \E t \in BagToSet(inflight) : \E a \in Answers(t) : DriverReplies(t, a[1], a[2])

SpecUI == Init /\ [][NextUI]_vars

\* The driver answers a call that a handler awaits.
Answered(by) ==
    \E t \in BagToSet(inflight) :
        /\ t.by = by
        /\ \E a \in Answers(t) : DriverReplies(t, a[1], a[2])

\* The component used through Connect, Disconnect and the buttons of its
\* DDS and Advanced tabs.
NextAdvanced ==
    \/ HandleConnect
    \/ HandleDisconnect
    \/ HandleProgramDDSRegisters
    \/ HandleProgramBlink
    \/ \E t \in BagToSet(inflight) : \E a \in Answers(t) :
          /\ t.by # "handleProgramDDSRegisters"
          /\ DriverReplies(t, a[1], a[2])
    \/ \E t \in BagToSet(inflight) : \E a \in Answers(t) : DDSReplied(t, a[1])

SpecAdvanced == Init /\ [][NextAdvanced]_vars

\* The component used through Connect, Disconnect and Program Sequence,
\* with its poller.
NextUIAnswered ==
    \/ HandleConnect
    \/ HandleDisconnect
    \/ HandleProgramSequence
    \/ PollerTick
    \/ \E t \in BagToSet(inflight) : \E a \in Answers(t) : DriverReplies(t, a[1], a[2])

\* That component with a driver that answers, or fails, every call that
\* handleConnect and handleProgramSequence await.
SpecUIAnswered ==
    /\ Init /\ [][NextUIAnswered]_vars
    /\ WF_vars(Answered("handleConnect"))
    /\ WF_vars(Answered("handleProgramSequence"))

\* PulseBlasterService answering status queries.
NextStatus ==
    \/ \E r \in {"reject", "ok"} : LegacyInitialize(r)
    \/ \E r \in {"reject", "ok"} : \E n \in RawValues : LegacyGetStatus(r, n)

SpecStatus == Init /\ [][NextStatus]_vars

\* The service with one caller waiting for the device to stop.
NextWait ==
    \/ \E op \in {"initialize", "start", "stop"} : SessionCall(op)
    \/ \E timeoutSeconds \in 1..MaxTimeout : WaitCall(timeoutSeconds)
    \/ \E t \in BagToSet(inflight) : \E r \in {"ok", "error"} : SessionAnswered(t, r)
    \/ DeviceStops
    \/ TimePasses
    \/ \E r \in WaitAnswers : WaitAnswered(r)

\* Time goes by and the driver keeps its timeout.
SpecWait == Init /\ [][NextWait]_vars /\ WF_vars(TimePasses) /\ WF_vars(WaitExpires)

----------------------------------------------------------------------------
\* What the services hand to the driver when they are given instructions or
\* patterns to program.

\* Output channels run from 0 to this.
MaxChannel == 1

\* Durations are 1..MaxDuration and a thousand times these.
MaxDuration == 2

\* useState: config.core_clock_mhz.
CoreClockMHz == 500

Channels == 0..MaxChannel

\* flags: number | string | number[]. A number is held as <<n>>, a list of
\* channel indices as it is, a string as the binary digits it spells, the
\* highest channel first.
FlagMasks == {[kind |-> "mask", value |-> <<n>>] : n \in 0..(2^(MaxChannel + 1) - 1)}

FlagLists ==
    {[kind |-> "list", value |-> l] :
        l \in {l \in UNION {[1..n -> Channels] : n \in 0..(MaxChannel + 1)} :
                  \A i, j \in DOMAIN l : l[i] = l[j] => i = j}}

FlagStrings == {[kind |-> "string", value |-> d] : d \in [1..(MaxChannel + 1) -> {0, 1}]}

Flags == FlagMasks \cup FlagLists \cup FlagStrings

\* The outputs an encoding selects.
OutputsOf(flags) ==
    CASE flags.kind = "mask" ->
           {c \in Channels : (flags.value[1] \div 2^c) % 2 = 1}
      [] flags.kind = "list" ->
           {flags.value[i] : i \in DOMAIN flags.value}
      [] flags.kind = "string" ->
           {c \in Channels : flags.value[Len(flags.value) - c] = 1}

\* The bit-mask that selects a set of outputs.
RECURSIVE MaskOf(_)
MaskOf(outputs) ==
    IF outputs = {} THEN 0
    ELSE LET c == CHOOSE c \in outputs : TRUE IN 2^c + MaskOf(outputs \ {c})

\* The encoding most callers use: output 0 as a bit-mask.
FlagOne == [kind |-> "mask", value |-> <<1>>]

Durations == (1..MaxDuration) \cup {1000 * d : d \in 1..MaxDuration}

\* displayTimeScale of a PulseInstruction; "none" when it is not set.
TimeScales == {"ns", "us", "none"}

\* A number m * 10^e, held exactly.
Number(m, e) == [m |-> m, e |-> e]

\* The units a duration can come in, as powers of ten of a nanosecond.
UnitExponent(units) ==
    CASE units = "ns" -> 0
      [] units = "us" -> 3
      [] units = "ms" -> 6
      [] units = "s"  -> 9

RECURSIVE Pow10(_)
Pow10(e) == IF e = 0 THEN 1 ELSE 10 * Pow10(e - 1)

PulseInstruction(flags, opcode, duration, displayTimeScale) ==
    [flags |-> flags, opcode |-> opcode, data |-> 0, duration |-> duration,
     displayTimeScale |-> displayTimeScale]

PulseSequencePattern(flags, duration, units) ==
    [flags |-> flags, duration |-> Number(duration, 0), units |-> units]

\* The time an instruction describes: duration counts nanoseconds, or it
\* counts the units of displayTimeScale (nanoseconds when that is not set).
MeantNs(inst, storedInNs) ==
    IF storedInNs \/ inst.displayTimeScale = "none"
    THEN inst.duration
    ELSE inst.duration * Pow10(UnitExponent(inst.displayTimeScale))

\* The time the driver reads from a duration and its units, in nanoseconds.
WireNs(w) == w.duration.m * Pow10(w.duration.e + UnitExponent(w.units))

\* The driver's tick count for a time, rounded to the nearest tick.
Ticks(ns) == (ns * CoreClockMHz + 500) \div 1000

\* The map of programInstructions with the flags reduced to a bit-mask.
ToPython_FlagsAsMask(inst) ==
    [flags |-> [kind |-> "mask", value |-> <<MaskOf(OutputsOf(inst.flags))>>],
     opcode |-> inst.opcode, data |-> inst.data,
     duration |-> Number(inst.duration, -9), units |-> "s"]

\* The map of programInstructions dividing by a million.
ToPython_DividedByMillion(inst) ==
    [flags |-> inst.flags, opcode |-> inst.opcode, data |-> inst.data,
     duration |-> Number(inst.duration, -6), units |-> "s"]

\* instructions.map(inst => ({flags, opcode, data,
\*     duration: inst.duration / 1000000000, units: 's'}))
ToPython(inst) ==
    [flags |-> inst.flags, opcode |-> inst.opcode, data |-> inst.data,
     duration |-> Number(inst.duration, -9), units |-> "s"]

\* PulseBlasterService.programSequence: instructions.map(inst => ({flags,
\*     opcode, data, duration: inst.duration,
\*     units: inst.displayTimeScale || 'ns', freq0: null, ...}))
ToBackend(inst) ==
    [flags |-> inst.flags, opcode |-> inst.opcode, data |-> inst.data,
     duration |-> Number(inst.duration, 0),
     units |-> IF inst.displayTimeScale = "none" THEN "ns" ELSE inst.displayTimeScale,
     dds |-> "null"]

\* What a caller may want programmed: two instructions and a pattern that
\* differ in their flags, or three instructions and two patterns that differ
\* in their durations.
ProgramInputs ==
    {[instructions |-> <<PulseInstruction(f1, "CONTINUE", 1000, "ns"),
                         PulseInstruction(f2, "STOP", 1000, "ns")>>,
      patterns |-> <<PulseSequencePattern(f1, 1, "us")>>] : f1, f2 \in Flags}
    \cup
    {[instructions |-> <<PulseInstruction(FlagOne, "CONTINUE", d[1], u[1]),
                         PulseInstruction(FlagOne, "CONTINUE", d[2], u[2]),
                         PulseInstruction(FlagOne, "STOP", d[3], u[3])>>,
      patterns |-> <<PulseSequencePattern(FlagOne, d[1], "ns"),
                     PulseSequencePattern(FlagOne, d[2], "us")>>] :
        d \in [1..3 -> Durations], u \in [1..3 -> TimeScales]}

\* Two connected services that are given something to program.
InitProgram ==
    /\ isInitialized = TRUE
    /\ inflight = EmptyBag
    /\ lifecycle = "Connected"
    /\ progress = 1
    /\ isConnected = FALSE
    /\ isConnecting = FALSE
    /\ isProgramming = FALSE
    /\ isRunning = FALSE
    /\ status = "null"
    /\ instructions = << >>
    /\ last = Event("none", "none", "none", "none", "none")
    /\ pollFailed = FALSE
    /\ pbInitialized = TRUE
    /\ rawStatus = 0
    /\ pbStatus = << >>
    /\ prior = "none"
    /\ waiting = NoWait
    /\ deviceStopped = FALSE
    /\ request \in ProgramInputs
    /\ sentInstructions = << >>
    /\ sentPatterns = << >>
    /\ backendInstructions = << >>
    /\ returnedWarnings = << >>

\* programInstructions up to its invoke.
ProgramInstructionsSends ==
    /\ Precondition("programInstructions")
    /\ sentInstructions = << >>
    /\ sentInstructions' =
          [i \in DOMAIN request.instructions |-> ToPython(request.instructions[i])]
    /\ UNCHANGED <<service, ui, instructions, last, pollFailed, legacy, prior,
                   driver, request, sentPatterns, backendInstructions,
                   returnedWarnings>>

\* programPulseSequence up to its invoke: the patterns go out as they came.
ProgramPulseSequenceSends ==
    /\ Precondition("programPulseSequence")
    /\ sentPatterns = << >>
    /\ sentPatterns' = request.patterns
    /\ UNCHANGED <<service, ui, instructions, last, pollFailed, legacy, prior,
                   driver, request, sentInstructions, backendInstructions,
                   returnedWarnings>>

\* PulseBlasterService.programSequence up to its invoke.
ProgramSequenceSends ==
    /\ pbInitialized
    /\ backendInstructions = << >>
    /\ backendInstructions' =
          [i \in DOMAIN request.instructions |-> ToBackend(request.instructions[i])]
    /\ UNCHANGED <<service, ui, instructions, last, pollFailed, legacy, prior,
                   driver, request, sentInstructions, sentPatterns,
                   returnedWarnings>>

\* The replies to program_python_instructions once parsed: status, and
\* warnings when the reply has the field.
ProgramResponses ==
    {[status |-> "success", has |-> TRUE, warnings |-> w] :
        w \in {<< >>, <<"w1">>, <<"w1", "w2">>}}
    \cup {[status |-> "success", has |-> FALSE, warnings |-> << >>],
          [status |-> "error", has |-> FALSE, warnings |-> << >>]}

\* programInstructions returning the warnings of every reply, one with
\* status 'error' included.
WarningsOf_ErrorNotThrown(response) ==
    <<IF response.has THEN response.warnings ELSE << >> >>

\* if (response.status === 'error') throw ...; return response.warnings || []
\* What is returned is held in a sequence, empty when the method threw.
WarningsOf(response) ==
    IF response.status = "error" THEN << >>
    ELSE <<IF response.has THEN response.warnings ELSE << >> >>

\* programInstructions after its invoke.
ProgramInstructionsReturns(response) ==
    /\ sentInstructions # << >>
    /\ last.op = "none"
    /\ returnedWarnings' = WarningsOf(response)
    /\ last' = Event("programInstructions", "api",
                     IF response.status = "error" THEN "raised" ELSE "returned",
                     CommandOf("programInstructions"),
                     IF response.status = "error" THEN "error" ELSE "ok")
    /\ UNCHANGED <<service, ui, instructions, pollFailed, legacy, prior, driver,
                   request, sentInstructions, sentPatterns, backendInstructions>>

NextProgram ==
    \/ ProgramInstructionsSends
    \/ \E response \in ProgramResponses : ProgramInstructionsReturns(response)
    \/ ProgramPulseSequenceSends
    \/ ProgramSequenceSends

SpecProgram == InitProgram /\ [][NextProgram]_vars

TypeOK ==
    /\ isInitialized \in BOOLEAN
    /\ BagCardinality(inflight) <= MaxInFlight
    /\ isInitialized <=> lifecycle # "Uninitialized"
    /\ progress \in 0..Len(Scenario)

----------------------------------------------------------------------------
\* C1: disconnect, called in any session state and whatever the driver
\* answers to its stop and reset commands, returns to its caller without
\* raising, and the session is then Uninitialized.
C1_DisconnectAlwaysEndsUninitialized ==
    (last.op = "disconnect" /\ last.ev \in {"returned", "raised", "rejected"})
        => (last.ev = "returned" /\ ~isInitialized)

\* disconnect has returned after the driver failed one of its commands.
C1_Witness ==
    /\ last.op = "disconnect"
    /\ last.ev = "returned"
    /\ last.reply \in {"reject", "error"}
    /\ ~isInitialized

\* C2: once the stop command of a disconnect is answered, with success or
\* with failure, the disconnect goes on to dispatch a reset command.
C2_ResetDispatchedWhateverStopDid ==
    (last.op = "disconnect" /\ last.cmd = CommandOf("stop")
        /\ last.ev \in {"continued", "returned", "raised"})
        => last.ev = "continued"

\* A call of method op was made in this step (it was dispatched or refused).
Called(op) == last'.op = op /\ last'.ev \in {"dispatched", "rejected"}

\* This step sent the command of method op to the driver and nothing else.
Sent(op) ==
    /\ last'.ev = "dispatched"
    /\ inflight' = Add(Task(op, last'.by, CommandOf(op)))

\* This step refused the call and sent nothing.
Refused ==
    /\ last'.ev = "rejected"
    /\ inflight' = inflight

C5_FailedInitializeStaysUninitialized ==
    [][/\ (last'.op = "initialize" /\ last'.ev \in {"returned", "raised"}
             /\ last'.reply \in {"reject", "error", "unparsable"})
          => (last'.ev = "raised" /\ ~isInitialized')
       /\ (~isInitialized /\ isInitialized')
          => (last'.op = "initialize" /\ last'.ev = "returned"
                /\ last'.reply \in {"ok", "shapeless"})]_vars

\* An initialize has failed on an error reply.
C5_Witness ==
    /\ last.op = "initialize"
    /\ last.ev = "raised"
    /\ last.reply = "error"
    /\ ~isInitialized

\* C6 as claimed: an initialize command is dispatched only while the session
\* is Uninitialized.
C6_InitializeOnlyWhenUninitialized ==
    (last.op = "initialize" /\ last.ev = "dispatched") => ~isInitialized

\* C6 as amended: every call of initialize dispatches an initialize
\* command, in any session state.
C6_InitializeAlwaysDispatched ==
    [][Called("initialize") => Sent("initialize")]_vars

\* An initialize command went out on an initialized session.
C6_Witness ==
    /\ last.op = "initialize"
    /\ last.ev = "dispatched"
    /\ isInitialized

\* C7 as claimed: a program command is dispatched only in the states
\* Connected, Programmed and Stopped.
C7_ProgramOnlyWhenNotRunning ==
    (last.op = "programInstructions" /\ last.ev = "dispatched")
        => lifecycle \in {"Connected", "Programmed", "Stopped"}

\* C7 as amended: programInstructions dispatches a program command exactly
\* when the session is initialized, Running included; on an Uninitialized
\* session it is refused and dispatches nothing.
C7_ProgramDispatchedIffInitialized ==
    [][Called("programInstructions")
         => IF isInitialized THEN Sent("programInstructions") ELSE Refused]_vars

\* A program command went out while the device was Running.
C7_Witness ==
    /\ last.op = "programInstructions"
    /\ last.ev = "dispatched"
    /\ lifecycle = "Running"

\* C8: at most one of connect, program, start, stop, reset, disconnect has
\* a command in flight at the driver.
C8_OneOperationInFlight ==
    NumberOf({t \in BagToSet(inflight) : t.op # "getStatus"}) <= 1

\* C9: two program commands are never in flight at the driver together.
C9_OneProgramInFlight ==
    NumberOf({t \in BagToSet(inflight) : t.cmd = CommandOf("programInstructions")}) <= 1

\* C10: the poller has at most one status query outstanding.
C10_OneStatusQueryOutstanding ==
    NumberOf({t \in BagToSet(inflight) : t.by = "poller"}) <= 1

C12_FailedTickKeepsPolling ==
    [][/\ (last'.by = "poller" /\ last'.ev \in {"raised", "rejected"})
          => (isConnected' = isConnected)
       /\ (pollFailed /\ isConnected /\ last'.by = "poller" /\ Called("getStatus"))
          => Sent("getStatus")
       /\ (pollFailed /\ last'.by = "poller" /\ last'.ev = "returned"
             /\ last'.reply = "ok")
          => (status' \in HardwareStates /\ isRunning' = (status' = "running"))]_vars

\* After a tick of the poller has failed the component is still connected
\* and a status reply saying running has just been published.
C12_Witness ==
    /\ pollFailed
    /\ isConnected
    /\ last.by = "poller"
    /\ last.ev = "returned"
    /\ last.reply = "ok"
    /\ status = "running"
    /\ isRunning

\* C13: a status query of the poller that fails raises to the tick, and
\* the published status and isRunning are what they were before.
C13_FailedQueryKeepsLastStatus ==
    [][(last'.by = "poller" /\ last'.ev \in {"returned", "raised"}
          /\ Throws(last'.reply))
         => (last'.ev = "raised" /\ status' = status /\ isRunning' = isRunning)]_vars

\* A status query has failed while a status saying running was published.
C13_Witness ==
    /\ last.by = "poller"
    /\ last.ev = "raised"
    /\ last.reply \in {"reject", "error"}
    /\ status = "running"
    /\ isRunning

\* C14: getStatus never changes the lifecycle state of the session: in every
\* step of a getStatus call (refused, dispatched, returned, raised), in any
\* state, the initialized flag and the lifecycle state stay as they were.
C14_StatusLeavesLifecycle ==
    [][last'.op = "getStatus"
         => (isInitialized' = isInitialized /\ lifecycle' = lifecycle)]_vars

\* A status query has failed on a Running session, which is still Running.
C14_Witness ==
    /\ last.op = "getStatus"
    /\ last.ev = "raised"
    /\ lifecycle = "Running"
    /\ isInitialized

\* C15: when the driver fails a program, start, stop or reset command
\* (invoke rejected, error reply, reply that does not parse), the call
\* raises to its caller and leaves the initialized flag and the lifecycle
\* state as they were.
C15_DriverFailureLeavesLifecycle ==
    [][(last'.op \in {"programInstructions", "start", "stop", "reset"}
          /\ last'.ev \in {"returned", "raised"} /\ Throws(last'.reply))
         => (last'.ev = "raised" /\ isInitialized' = isInitialized
               /\ lifecycle' = lifecycle)]_vars

\* A start has failed on a Programmed session, which is still Programmed.
C15_Witness ==
    /\ last.op = "start"
    /\ last.ev = "raised"
    /\ last.reply \in {"reject", "error", "unparsable"}
    /\ lifecycle = "Programmed"

\* C16: the initialized flag changes only in steps of initialize and of
\* disconnect; no step of programInstructions, start, stop, reset,
\* getStatus, waitUntilStopped or a register method changes it, whether the
\* call succeeds or fails.
C16_FlagChangesOnlyInInitializeAndDisconnect ==
    [][/\ isInitialized' # isInitialized => last'.op \in {"initialize", "disconnect"}
       /\ last'.op \in Methods \ {"initialize", "disconnect"}
          => isInitialized' = isInitialized]_vars

\* A register method has failed and the session is still initialized.
C16_Witness ==
    /\ last.op = "programPhaseRegisters"
    /\ last.ev = "raised"
    /\ isInitialized

\* C17: programInstructions with a sequence that has instructions but no
\* terminal opcode is refused before any driver call: no program command is
\* dispatched for it.
C17_ProgramWithoutTerminalOpcodeRefused ==
    (last.op = "programInstructions" /\ last.ev = "dispatched" /\ Len(instructions) > 0)
        => HasTerminalOpcode(instructions)

\* C18: programInstructions with an empty sequence never dispatches a
\* program command, whoever calls the service.
C18_EmptyProgramNeverDispatched ==
    (last.op = "programInstructions" /\ last.ev = "dispatched")
        => Len(instructions) # 0

\* Bit k of the status number n.
BitOf(n, k) == (n \div 2^k) % 2 = 1

\* C19: for every 32-bit status number the driver returns, getStatus
\* returns an object whose four booleans are bits 0 to 3 of the number:
\* is_running bit 0, is_stopped bit 1, is_reset bit 2, is_waiting bit 3,
\* whatever the other bits are; 0x1 gives running only, 0x2 stopped only,
\* 0xF all four.
C19_StatusDecodedFromFixedBits ==
    (last.op = "getStatus" /\ last.ev = "returned")
        => /\ Len(pbStatus) = 1
           /\ pbStatus[1].is_running = BitOf(rawStatus, 0)
           /\ pbStatus[1].is_stopped = BitOf(rawStatus, 1)
           /\ pbStatus[1].is_reset = BitOf(rawStatus, 2)
           /\ pbStatus[1].is_waiting = BitOf(rawStatus, 3)
           /\ rawStatus = 1 => <<pbStatus[1].is_running, pbStatus[1].is_stopped,
                                 pbStatus[1].is_reset, pbStatus[1].is_waiting>>
                                  = <<TRUE, FALSE, FALSE, FALSE>>
           /\ rawStatus = 2 => <<pbStatus[1].is_running, pbStatus[1].is_stopped,
                                 pbStatus[1].is_reset, pbStatus[1].is_waiting>>
                                  = <<FALSE, TRUE, FALSE, FALSE>>
           /\ rawStatus = 15 => <<pbStatus[1].is_running, pbStatus[1].is_stopped,
                                  pbStatus[1].is_reset, pbStatus[1].is_waiting>>
                                   = <<TRUE, TRUE, TRUE, TRUE>>

\* The number 0xFFFFFFF1, every bit above bit 3 set, has been decoded as
\* running only.
C19_Witness ==
    /\ last.op = "getStatus"
    /\ last.ev = "returned"
    /\ rawStatus = -15
    /\ pbStatus = <<[status |-> -15, is_running |-> TRUE, is_stopped |-> FALSE,
                     is_reset |-> FALSE, is_waiting |-> FALSE]>>

\* C20: waitUntilStopped does not raise when the timeout runs out: a reply
\* whose stopped is false makes the call return, and its caller leaves
\* isRunning alone; a reply whose stopped is true makes it return and its
\* caller clears isRunning; the call raises only when the driver failed it.
C20_TimeoutIsNotAnError ==
    [][(last'.op = "waitUntilStopped" /\ last'.ev \in {"returned", "raised"})
         => /\ last'.reply = "timeout" => (last'.ev = "returned" /\ isRunning' = isRunning)
            /\ last'.reply = "ok" => (last'.ev = "returned" /\ ~isRunning')
            /\ last'.ev = "raised"
                  => last'.reply \in {"reject", "unparsable", "null", "error"}]_vars

\* waitUntilStopped has returned on a timeout and the component still shows
\* the device running.
C20_Witness ==
    /\ last.op = "waitUntilStopped"
    /\ last.ev = "returned"
    /\ last.reply = "timeout"
    /\ isRunning

SingleCommandMethods == Methods \ {"disconnect"}

\* C22: one call of initialize, programInstructions, start, stop, reset,
\* getStatus, waitUntilStopped or a register method invokes the driver at
\* most once: the call puts at most one command in flight, and the answer
\* to it, whatever it is, ends the call and puts nothing in flight again.
C22_OneInvocationPerCall ==
    [][/\ (last'.op \in SingleCommandMethods /\ last'.reply = "none")
          => \/ inflight' = inflight
             \/ /\ last'.ev = "dispatched"
                /\ inflight' = Add(Task(last'.op, last'.by, last'.cmd))
       /\ (last'.op \in SingleCommandMethods /\ last'.reply # "none")
          => /\ last'.ev \in {"returned", "raised"}
             /\ BagCardinality(inflight') = BagCardinality(inflight) - 1]_vars

\* A start whose reply could not be parsed has raised and nothing is in
\* flight.
C22_Witness ==
    /\ last.op = "start"
    /\ last.ev = "raised"
    /\ last.reply = "unparsable"
    /\ inflight = EmptyBag

\* C23 as claimed: a call of any method but disconnect that the driver
\* failed raises to its caller.
C23_NoFailureSwallowed ==
    (last.op # "disconnect" /\ last.ev \in {"returned", "raised"} /\ Throws(last.reply))
        => last.ev = "raised"

\* C23 as amended: a call of any method but disconnect and getDiagnostics
\* that the driver failed raises to its caller; getDiagnostics returns when
\* its status query failed.
C23_OnlyDisconnectAndDiagnosticsSwallow ==
    /\ (last.op \notin {"disconnect", "getDiagnostics"}
          /\ last.ev \in {"returned", "raised"} /\ Throws(last.reply))
         => last.ev = "raised"
    /\ (last.op = "getDiagnostics" /\ Throws(last.reply)) => last.ev = "returned"

\* getDiagnostics has returned after the driver failed its status query.
C23_Witness ==
    /\ last.op = "getDiagnostics"
    /\ last.ev = "returned"
    /\ last.reply \in {"reject", "error"}
    /\ isInitialized

\* C24: a reply that parses but has none of the expected fields is a
\* failure: the call raises, and an initialize so answered leaves the
\* session Uninitialized.
C24_ShapelessReplyIsFailure ==
    (last.ev \in {"returned", "raised"} /\ last.reply = "shapeless"
        /\ last.op \notin {"disconnect", "getDiagnostics"})
        => (last.ev = "raised" /\ (last.op = "initialize" => ~isInitialized))

\* C25: the Error of every failed call names the operation that failed, and
\* quotes the driver's or the transport's message when there is one, also
\* when the call failed because the session is not initialized.
C25_FailureNamesOperationAndCause ==
    last.ev \in {"raised", "rejected"}
        => \A noInterpreter \in BOOLEAN :
              /\ ErrorOf(last.op, last.ev, last.reply, noInterpreter).operation = last.op
              /\ ErrorOf(last.op, last.ev, last.reply, noInterpreter).cause = last.reply

\* C26: a reset that returns on a session that is Connected, Programmed,
\* Running or Stopped leaves the session Connected: the flag stays set, and
\* the component that asked for the reset no longer shows the board as
\* running.
C26_ResetLeavesConnected ==
    [][(last'.op = "reset" /\ last'.ev = "returned"
            /\ lifecycle \in {"Connected", "Programmed", "Running", "Stopped"})
        => /\ isInitialized'
           /\ lifecycle' = "Connected"
           /\ (last'.by = "handleReset" => ~isRunning')]_vars

\* The Reset button was pressed while the program ran, and reset returned.
C26_Witness ==
    /\ last.op = "reset"
    /\ last.by = "handleReset"
    /\ last.ev = "returned"
    /\ last.reply = "ok"
    /\ prior = "Running"
    /\ lifecycle = "Connected"
    /\ isInitialized
    /\ ~isRunning

\* C27: instructions that describe the same time in different units reach
\* the driver as the same time and give the same tick count, whichever of
\* duration's two readings the instructions are written in.
C27_SameDurationSameTicks ==
    (sentInstructions # << >> /\ backendInstructions # << >> /\ sentPatterns # << >>)
        => /\ \E storedInNs \in BOOLEAN :
                \A i, j \in DOMAIN request.instructions :
                    MeantNs(request.instructions[i], storedInNs)
                        = MeantNs(request.instructions[j], storedInNs)
                    => /\ WireNs(sentInstructions[i]) = WireNs(sentInstructions[j])
                       /\ Ticks(WireNs(sentInstructions[i]))
                            = Ticks(WireNs(sentInstructions[j]))
                       /\ WireNs(backendInstructions[i]) = WireNs(backendInstructions[j])
                       /\ Ticks(WireNs(backendInstructions[i]))
                            = Ticks(WireNs(backendInstructions[j]))
           /\ \A i, j \in DOMAIN request.patterns :
                WireNs(request.patterns[i]) = WireNs(request.patterns[j])
                    => Ticks(WireNs(sentPatterns[i])) = Ticks(WireNs(sentPatterns[j]))

C29_OnlyInitializeReachesDriver ==
    [][(~isInitialized /\ last'.reply = "none")
        => IF last'.op = "initialize"
           THEN /\ last'.ev = "dispatched"
                /\ inflight' = Add(Task("initialize", last'.by, CommandOf("initialize")))
           ELSE /\ inflight' = inflight
                /\ last'.cmd = "none"
                /\ ~isInitialized'
                /\ last'.ev = (IF last'.op \in {"disconnect", "getDiagnostics"}
                               THEN "returned" ELSE "rejected")]_vars

\* waitUntilStopped was called on a session that is not initialized, with
\* nothing at the driver.
C29_Witness ==
    /\ ~isInitialized
    /\ last.op = "waitUntilStopped"
    /\ last.ev = "rejected"
    /\ last.cmd = "none"
    /\ inflight = EmptyBag

\* C30: an initialize that fails leaves the flag false whatever it was
\* before, and nothing is put before the driver on its account: the
\* suspended calls are those of before less the initialize.
C30_FailedInitializeClearsFlag ==
    [][(last'.op = "initialize" /\ last'.reply \in {"reject", "unparsable", "null", "error"})
        => /\ last'.ev = "raised"
           /\ ~isInitialized'
           /\ lifecycle' = "Uninitialized"
           /\ inflight' (+) SetToBag({Task("initialize", last'.by, last'.cmd)}) = inflight]_vars

\* An initialize has failed on a session that was running.
C30_Witness ==
    /\ last.op = "initialize"
    /\ last.ev = "raised"
    /\ prior = "Running"
    /\ ~isInitialized
    /\ lifecycle = "Uninitialized"
    /\ inflight = EmptyBag

\* C31: while the component is disconnected, that is from the end of
\* handleDisconnect to the next handleConnect that succeeds, status is null
\* and isRunning is false, whatever calls were suspended when the disconnect
\* happened.
C31_DisconnectedShowsNoStatus ==
    ~isConnected => (status = "null" /\ ~isRunning)

\* C32: the answer to a tick of the poller that arrives right after a
\* start, stop or reset of the component has returned, and so belongs to a
\* getStatus issued before that command was answered, leaves isRunning as
\* the handler set it.
C32_StalePollKeepsRunningFlag ==
    [][(/\ last.by \in {"handleStart", "handleStop", "handleReset"}
        /\ last.ev = "returned"
        /\ last'.by = "poller"
        /\ last'.reply # "none")
        => isRunning' = isRunning]_vars

\* No handler of the component awaits the service.
NoHandlerInFlight == \A t \in BagToSet(inflight) : t.by \notin Handlers

\* C33: with one component as the only user of the service, isConnected
\* equals the flag of the service whenever no handler awaits the service.
C33_ConnectedAgreesWithFlag ==
    NoHandlerInFlight => (isConnected = isInitialized)

\* A disconnect of a running session whose stop the driver failed has
\* returned, and nothing else is awaited: component and service are both
\* disconnected.
C33_Witness ==
    /\ NoHandlerInFlight
    /\ last.by = "handleDisconnect"
    /\ last.ev = "returned"
    /\ last.reply = "error"
    /\ prior = "Running"
    /\ ~isConnected
    /\ ~isInitialized

\* C34: the in-progress flags are released. handleConnect ends with
\* isConnecting false and handleProgramSequence with isProgramming false,
\* whether the call they awaited returned or threw; and with a driver that
\* answers, a flag that is set is cleared in the end.
C34_InProgressFlagsReleased ==
    /\ [][(last'.ev \in {"returned", "raised", "rejected"})
            => /\ last'.by = "handleConnect" => ~isConnecting'
               /\ last'.by = "handleProgramSequence" => ~isProgramming']_vars
    /\ isConnecting ~> ~isConnecting
    /\ isProgramming ~> ~isProgramming

\* handleProgramSequence has ended on a failure of the driver with
\* isProgramming released.
C34_Witness ==
    /\ last.by = "handleProgramSequence"
    /\ last.ev = "raised"
    /\ last.reply = "error"
    /\ ~isProgramming
    /\ isConnected

\* C35: programInstructions hands the driver one instruction for each
\* instruction it was given, in the order given, with flags, opcode and data
\* as given, the duration divided by 10^9 and units 's'; when the driver
\* reports success it returns the warnings of the reply, or an empty list
\* when the reply has none.
C35_InstructionsMappedOneToOne ==
    /\ [](sentInstructions # << >>
            => /\ Len(sentInstructions) = Len(request.instructions)
               /\ \A i \in DOMAIN request.instructions :
                    /\ sentInstructions[i].flags = request.instructions[i].flags
                    /\ sentInstructions[i].opcode = request.instructions[i].opcode
                    /\ sentInstructions[i].data = request.instructions[i].data
                    /\ sentInstructions[i].duration
                         = [m |-> request.instructions[i].duration, e |-> -9]
                    /\ sentInstructions[i].units = "s")
    /\ [][\A response \in ProgramResponses :
            ProgramInstructionsReturns(response)
                => IF response.status = "success"
                   THEN /\ last'.ev = "returned"
                        /\ returnedWarnings'
                             = <<IF response.has THEN response.warnings ELSE << >> >>
                   ELSE /\ last'.ev = "raised"
                        /\ returnedWarnings' = << >>]_vars

\* Three instructions went out and the driver answered with two warnings,
\* which were returned.
C35_Witness ==
    /\ Len(sentInstructions) = 3
    /\ sentInstructions[3].opcode = "STOP"
    /\ sentInstructions[1].duration = [m |-> 1000, e |-> -9]
    /\ last.op = "programInstructions"
    /\ last.ev = "returned"
    /\ returnedWarnings = << <<"w1", "w2">> >>

\* A call of handleProgramDDSRegisters that is suspended on a method.
DDSTask(op) == Task(op, "handleProgramDDSRegisters", CommandOf(op))

\* How many such calls a bag of suspended calls holds.
DDSCount(bag, op) == IF DDSTask(op) \in DOMAIN bag THEN bag[DDSTask(op)] ELSE 0

\* C36: handleProgramDDSRegisters sends the frequency command first, the
\* phase command only when the frequency command has been answered with
\* success, the amplitude command only when the phase command has; when the
\* driver fails one of them the handler sends no more.
C36_DDSRegistersInOrder ==
    [][/\ DDSCount(inflight', "programFrequencyRegisters")
             > DDSCount(inflight, "programFrequencyRegisters")
          => /\ last'.op = "programFrequencyRegisters"
             /\ last'.ev = "dispatched"
       /\ DDSCount(inflight', "programPhaseRegisters")
             > DDSCount(inflight, "programPhaseRegisters")
          => /\ last'.op = "programFrequencyRegisters"
             /\ last'.ev = "continued"
             /\ last'.reply \in {"ok", "shapeless"}
             /\ DDSCount(inflight', "programFrequencyRegisters")
                  = DDSCount(inflight, "programFrequencyRegisters") - 1
       /\ DDSCount(inflight', "programAmplitudeRegisters")
             > DDSCount(inflight, "programAmplitudeRegisters")
          => /\ last'.op = "programPhaseRegisters"
             /\ last'.ev = "continued"
             /\ last'.reply \in {"ok", "shapeless"}
             /\ DDSCount(inflight', "programPhaseRegisters")
                  = DDSCount(inflight, "programPhaseRegisters") - 1
       /\ (last'.by = "handleProgramDDSRegisters"
             /\ last'.reply \in {"reject", "unparsable", "null", "error"})
          => /\ last'.ev = "raised"
             /\ inflight' (+) SetToBag({Task(last'.op, last'.by, last'.cmd)}) = inflight]_vars

\* The phase command has been answered with success and the amplitude
\* command is at the driver.
C36_Witness ==
    /\ last.by = "handleProgramDDSRegisters"
    /\ last.op = "programPhaseRegisters"
    /\ last.ev = "continued"
    /\ DDSCount(inflight, "programAmplitudeRegisters") = 1
    /\ isConnected

\* C37: Program Blink pressed on a connected component with an initialized
\* service puts a program command before the driver.
C37_BlinkDispatchesProgramCommand ==
    [][(isConnected /\ isInitialized /\ last'.by = "handleProgramBlink"
            /\ last'.reply = "none")
        => /\ last'.ev = "dispatched"
           /\ last'.cmd \in {CommandOf("programPulseSequence"),
                              CommandOf("programInstructions")}
           /\ inflight' = Add(Task(last'.op, last'.by, last'.cmd))]_vars

====
